---- MODULE Spec2Model ----
(***************************************************************************)
(* A model of the gitignore pattern library (src/src/index.ts): parse,     *)
(* parsePath, dedupe, convertIgnorePatternToMinimatch, toRegex and ignore. *)
(* Strings are sequences of one-character strings.  Every function of the  *)
(* library is pure: the variables hold the arguments and the result of the *)
(* last call of each function.                                             *)
(***************************************************************************)
EXTENDS Integers, Sequences, FiniteSets, TLC

VARIABLES
    patterns, regex,        \* toRegex: its argument and what it returned
    candidate, result,      \* ignore: its argument and what it returned
    content, options,       \* parse: its arguments
    parsed,                 \* parse: what it returned
    files,                  \* the file system: what each path holds
    filepath, pathOptions,  \* parsePath: its arguments
    outcome,                \* parsePath: what it returned or raised
    ignorePattern,          \* convertIgnorePatternToMinimatch: its argument
    minimatch               \* convertIgnorePatternToMinimatch: what it returned

matchVars == <<patterns, regex, candidate, result>>

parseVars == <<content, options, parsed>>

pathVars == <<files, filepath, pathOptions, outcome>>

convertVars == <<ignorePattern, minimatch>>

vars == <<matchVars, parseVars, pathVars, convertVars>>

(***************************************************************************)
(* Bounds of the model.                                                    *)
(***************************************************************************)
\* the patterns of one list have at most this many characters together
MaxPatChars == 3
MaxCandLen == 3
\* the same for the lists of wildcard patterns
MaxWildChars == 5
MaxContentLen == 5
MaxFileLen == 3
MaxConvertLen == 4

PatternChars == {"a", "/", "*", "!"}
CandidateChars == {"a", "/"}
WildChars == {"*", "/", "!"}
ContentChars == {"a", "b", "#", " ", "\n", "\r"}
FileChars == {"a", "\n"}
ConvertChars == {"a", "/", "!", "*", "{", "(", "\\", " "}

(***************************************************************************)
(* Strings.                                                                *)
(***************************************************************************)
StringsUpTo(chars, n) == UNION {[1..k -> chars] : k \in 0..n}

RECURSIVE ListsOfStrings(_, _)
\* the lists of non-empty strings over chars with at most n characters in all
ListsOfStrings(chars, n) ==
    {<<>>} \cup UNION {{<<s>> \o rest : s \in [1..k -> chars],
                                        rest \in ListsOfStrings(chars, n - k)} :
                       k \in 1..n}

\* s.startsWith(prefix)
StartsWith(s, prefix) ==
    /\ Len(prefix) <= Len(s)
    /\ SubSeq(s, 1, Len(prefix)) = prefix

\* s.endsWith(suffix)
EndsWith(s, suffix) ==
    /\ Len(suffix) <= Len(s)
    /\ SubSeq(s, Len(s) - Len(suffix) + 1, Len(s)) = suffix

\* s.slice(1)
Slice1(s) == SubSeq(s, 2, Len(s))

\* s.indexOf(needle), 0-based, -1 when absent
Occurrences(s, needle) ==
    {i \in 1..(Len(s) - Len(needle) + 1) : SubSeq(s, i, i + Len(needle) - 1) = needle}

Least(hits) == IF hits = {} THEN 0 ELSE CHOOSE i \in hits : \A j \in hits : i <= j

IndexOf(s, needle) == Least(Occurrences(s, needle)) - 1

\* s with the len characters after the first i replaced by repl
Splice(s, i, len, repl) ==
    IF i < 0 THEN s
    ELSE SubSeq(s, 1, i) \o repl \o SubSeq(s, i + len + 1, Len(s))

\* s.replace(needle, repl) with a string needle: the first occurrence only
ReplaceFirst(s, needle, repl) == Splice(s, IndexOf(s, needle), Len(needle), repl)

RECURSIVE Join(_, _)
\* parts.join(sep)
Join(parts, sep) ==
    IF Len(parts) = 0 THEN <<>>
    ELSE IF Len(parts) = 1 THEN parts[1]
    ELSE parts[1] \o sep \o Join(Tail(parts), sep)

(***************************************************************************)
(* The tokenizer: parse and dedupe.                                        *)
(***************************************************************************)
\* what String.prototype.trim removes
WhiteSpace == {" ", "\t", "\n", "\r"}

RECURSIVE TrimStart(_)
TrimStart(s) ==
    IF Len(s) > 0 /\ Head(s) \in WhiteSpace THEN TrimStart(Tail(s)) ELSE s

RECURSIVE TrimEnd(_)
\* s.trimEnd()
TrimEnd(s) ==
    IF Len(s) > 0 /\ s[Len(s)] \in WhiteSpace
    THEN TrimEnd(SubSeq(s, 1, Len(s) - 1))
    ELSE s

\* line.trim()
Trim(s) == TrimEnd(TrimStart(s))

\* the text before a '\n', without the '\r' that /\r?\n/ takes with it
WithoutCR(line) ==
    IF Len(line) > 0 /\ line[Len(line)] = "\r"
    THEN SubSeq(line, 1, Len(line) - 1)
    ELSE line

RECURSIVE SplitLines(_)
\* the lines of s, i the index of its first '\n' (-1 when it has none)
SplitAt(s, i) ==
    IF i < 0 THEN <<s>>
    ELSE <<WithoutCR(SubSeq(s, 1, i))>> \o SplitLines(SubSeq(s, i + 2, Len(s)))

\* content.split(/\r?\n/)
SplitLines(s) == SplitAt(s, IndexOf(s, <<"\n">>))

\* if (value && !value.startsWith('#')) patterns.push(value)
PushedValue(value) ==
    IF value # <<>> /\ ~StartsWith(value, <<"#">>) THEN <<value>> ELSE <<>>

\* the same with the comment test made on the line before it is trimmed
PushedUntrimmedTest(line) ==
    IF Trim(line) # <<>> /\ ~StartsWith(line, <<"#">>) THEN <<Trim(line)>> ELSE <<>>

\* one turn of the loop of parse
PushedLine(line) == PushedValue(Trim(line))

RECURSIVE KeptLines(_)
\* the patterns that the loop of parse collects
KeptLines(lines) ==
    IF Len(lines) = 0 THEN <<>>
    ELSE PushedLine(Head(lines)) \o KeptLines(Tail(lines))

RECURSIVE Without(_, _)
\* list without the elements equal to x
Without(list, x) ==
    IF Len(list) = 0 THEN <<>>
    ELSE (IF Head(list) = x THEN <<>> ELSE <<Head(list)>>) \o Without(Tail(list), x)

RECURSIVE dedupe(_)
\* [...new Set(patterns)]: each value once, at the place of its first occurrence
dedupe(pats) ==
    IF Len(pats) = 0 THEN <<>>
    ELSE <<Head(pats)>> \o dedupe(Without(Tail(pats), Head(pats)))

\* an optional boolean option: absent, true or false
OptionValues == {"undefined", "true", "false"}

\* option ?? default
OrDefault(option, default) == IF option = "undefined" THEN default ELSE option = "true"

\* the return of parse
Returned(pats, opts) == IF OrDefault(opts.dedupe, TRUE) THEN dedupe(pats) ELSE pats

\* parse(content, options)
parse(text, opts) == Returned(KeptLines(SplitLines(text)), opts)

(***************************************************************************)
(* parsePath and the file system it reads.                                 *)
(***************************************************************************)
\* the text of the literal ": invalid file path." of the message, with the
\* quote that closes the file path
InvalidFilePathText ==
    <<"\"", ":", " ", "i", "n", "v", "a", "l", "i", "d", " ",
      "f", "i", "l", "e", " ", "p", "a", "t", "h", ".">>

\* `"${filepath}": invalid file path.`
ErrorMessage(path) == <<"\"">> \o path \o InvalidFilePathText

Thrown(message) == [kind |-> "throw", value |-> <<>>, message |-> message]

ReturnedList(value) == [kind |-> "return", value |-> value, message |-> <<>>]

\* parsePath with a strict option that must be given to take effect
parsePathStrictIfGiven(fs, path, opts) ==
    IF ~fs[path].exists
    THEN IF OrDefault(opts.strict, FALSE)
         THEN Thrown(ErrorMessage(path))
         ELSE ReturnedList(<<>>)
    ELSE ReturnedList(parse(fs[path].text, opts))

\* parsePath(filepath, options) on the file system fs
parsePath(fs, path, opts) ==
    IF ~fs[path].exists
    THEN IF OrDefault(opts.strict, TRUE)
         THEN Thrown(ErrorMessage(path))
         ELSE ReturnedList(<<>>)
    ELSE ReturnedList(parse(fs[path].text, opts))

(***************************************************************************)
(* The glob translator.                                                    *)
(***************************************************************************)
\* what '.' does not match
LineTerminators == {"\n", "\r"}

\* the characters that ([{(]) matches
BraceChars == {"{", "("}

RECURSIVE RunEnd(_, _)
\* where the run (?:\\.|[^{(])* that starts at i ends: the index of the
\* first character it does not take
RunEnd(s, i) ==
    IF i > Len(s) THEN i
    ELSE IF s[i] = "\\" /\ i + 1 <= Len(s) /\ s[i + 1] \notin LineTerminators
    THEN RunEnd(s, i + 2)
    ELSE IF s[i] \notin BraceChars THEN RunEnd(s, i + 1)
    ELSE i

RECURSIVE EscapeFrom(_, _)
\* one match of the sticky expression at i, j the end of its run: '$1\\$2',
\* or the rest of the text unchanged when there is no match at i
EscapeMatch(s, i, j) ==
    IF j > Len(s) THEN SubSeq(s, i, Len(s))
    ELSE SubSeq(s, i, j - 1) \o <<"\\", s[j]>> \o EscapeFrom(s, j + 1)

EscapeFrom(s, i) == EscapeMatch(s, i, RunEnd(s, i))

\* an escaping that looks only at the character before the brace
EscapeAfterNonBackslash(s) ==
    LET Piece(i) == IF s[i] \in BraceChars /\ (i = 1 \/ s[i - 1] # "\\")
                    THEN <<"\\", s[i]>> ELSE <<s[i]>>
        Pieces[i \in 0..Len(s)] == IF i = 0 THEN <<>> ELSE Pieces[i - 1] \o Piece(i)
    IN  Pieces[Len(s)]

\* s.replaceAll(/(?=((?:\\.|[^{(])*))\1([{(])/guy, '$1\\$2')
EscapeBraces(s) == EscapeFrom(s, 1)

\* the special cases
PassThrough == {<<>>, <<"*", "*">>, <<"/", "*", "*">>, <<"*", "*", "/">>}

NegatedPrefix(pattern) == IF StartsWith(pattern, <<"!">>) THEN <<"!">> ELSE <<>>

PatternToTest(pattern) ==
    TrimEnd(IF StartsWith(pattern, <<"!">>) THEN Slice1(pattern) ELSE pattern)

\* firstIndexOfSlash < 0 || firstIndexOfSlash === patternToTest.length - 1 ? '**/' : ''
PrefixFor(firstIndexOfSlash, length) ==
    IF firstIndexOfSlash < 0 \/ firstIndexOfSlash = length - 1
    THEN <<"*", "*", "/">> ELSE <<>>

MatchEverywherePrefix(patternToTest) ==
    PrefixFor(IndexOf(patternToTest, <<"/">>), Len(patternToTest))

PatternWithoutLeadingSlash(patternToTest) ==
    IF IndexOf(patternToTest, <<"/">>) = 0 THEN Slice1(patternToTest) ELSE patternToTest

\* a variant that looks at the trailing '**' only
MatchInsideSuffixAfterStars(patternToTest) ==
    IF EndsWith(patternToTest, <<"*", "*">>) THEN <<"/", "*">> ELSE <<>>

MatchInsideSuffix(patternToTest) ==
    IF EndsWith(patternToTest, <<"/", "*", "*">>) THEN <<"/", "*">> ELSE <<>>

\* the return of convertIgnorePatternToMinimatch
Converted(negatedPrefix, patternToTest) ==
    IF patternToTest \in PassThrough
    THEN negatedPrefix \o patternToTest
    ELSE negatedPrefix
            \o MatchEverywherePrefix(patternToTest)
            \o EscapeBraces(PatternWithoutLeadingSlash(patternToTest))
            \o MatchInsideSuffix(patternToTest)

convertIgnorePatternToMinimatch(pattern) ==
    Converted(NegatedPrefix(pattern), PatternToTest(pattern))

(***************************************************************************)
(* Regular expressions: the part of the RegExp syntax that toRegex can     *)
(* emit (literals, identity escapes, '.', negated classes, groups, the     *)
(* quantifiers '*', '+' and '?', alternation, and the assertions '^' and   *)
(* '$'), parsed with the precedence of the language: '|' binds weakest.    *)
(* A pattern is a tree of nodes; Ends gives the positions a match can end  *)
(* at, so Test is true iff the backtracking matcher finds a match.         *)
(***************************************************************************)
Node(t, c, cs, kids) == [t |-> t, c |-> c, cs |-> cs, kids |-> kids]

ParseOk(node, next) == [ok |-> TRUE, node |-> node, next |-> next]

\* new RegExp(source) throws a SyntaxError
ParseFail == [ok |-> FALSE, node |-> Node("fail", "", {}, <<>>), next |-> 0]

Quantifiers == {"*", "+", "?"}

\* a class with one more member
AddMember(c, r) == [r EXCEPT !.cs = r.cs \cup {c}]

RECURSIVE ClassMembers(_, _)
\* the members of a character class, from position i up to its ']'
ClassMembers(src, i) ==
    IF i > Len(src) THEN [ok |-> FALSE, cs |-> {}, next |-> 0]
    ELSE IF src[i] = "]" THEN [ok |-> TRUE, cs |-> {}, next |-> i + 1]
    ELSE IF src[i] = "\\"
         THEN IF i + 1 > Len(src) THEN [ok |-> FALSE, cs |-> {}, next |-> 0]
              ELSE AddMember(src[i + 1], ClassMembers(src, i + 2))
    ELSE AddMember(src[i], ClassMembers(src, i + 1))

\* '[' members ']' or '[^' members ']'
ClassAtom(negated, r) ==
    IF r.ok
    THEN ParseOk(Node(IF negated THEN "nclass" ELSE "class", "", r.cs, <<>>), r.next)
    ELSE ParseFail

\* '(' disjunction ')', r the parsed disjunction
GroupAtom(src, r) ==
    IF r.ok /\ r.next <= Len(src) /\ src[r.next] = ")"
    THEN ParseOk(Node("group", "", {}, <<r.node>>), r.next + 1)
    ELSE ParseFail

\* an atom a with the quantifier (and its optional lazy '?') that follows it
Quantified(src, a) ==
    IF ~a.ok THEN ParseFail
    ELSE IF a.next > Len(src) \/ src[a.next] \notin Quantifiers THEN a
    ELSE IF a.node.t \in {"bol", "eol"} THEN ParseFail   \* nothing to repeat
    ELSE ParseOk(Node(CASE src[a.next] = "*" -> "star"
                        [] src[a.next] = "+" -> "plus"
                        [] OTHER -> "opt",
                      "", {}, <<a.node>>),
                 IF a.next + 1 <= Len(src) /\ src[a.next + 1] = "?"
                 THEN a.next + 2 ELSE a.next + 1)

\* the node of kind t whose kids are first and then the kids of rest
WithKids(t, first, rest) ==
    IF ~rest.ok THEN ParseFail
    ELSE ParseOk(Node(t, "", {}, <<first.node>> \o rest.node.kids), rest.next)

RECURSIVE ParseDisjunction(_, _)
RECURSIVE ParseAlternative(_, _)
RECURSIVE ParseTerm(_, _)
RECURSIVE ParseAtom(_, _)

\* Atom: an escape, a group, a class, '.', an assertion or a literal
ParseAtom(src, i) ==
    CASE src[i] = "\\" ->
            IF i + 1 > Len(src) THEN ParseFail
            ELSE ParseOk(Node("lit", src[i + 1], {}, <<>>), i + 2)
      [] src[i] = "(" -> GroupAtom(src, ParseDisjunction(src, i + 1))
      [] src[i] = "[" ->
            IF i + 1 <= Len(src) /\ src[i + 1] = "^"
            THEN ClassAtom(TRUE, ClassMembers(src, i + 2))
            ELSE ClassAtom(FALSE, ClassMembers(src, i + 1))
      [] src[i] = "." -> ParseOk(Node("any", "", {}, <<>>), i + 1)
      [] src[i] = "^" -> ParseOk(Node("bol", "", {}, <<>>), i + 1)
      [] src[i] = "$" -> ParseOk(Node("eol", "", {}, <<>>), i + 1)
      [] src[i] \in Quantifiers -> ParseFail   \* nothing to repeat
      [] OTHER -> ParseOk(Node("lit", src[i], {}, <<>>), i + 1)

\* Term: an atom with an optional quantifier
ParseTerm(src, i) == Quantified(src, ParseAtom(src, i))

\* the terms that follow the term t of an alternative
AlternativeRest(src, t) ==
    IF ~t.ok THEN ParseFail
    ELSE WithKids("cat", t, ParseAlternative(src, t.next))

\* Alternative: terms up to the next '|' or ')' or the end
ParseAlternative(src, i) ==
    IF i > Len(src) \/ src[i] \in {"|", ")"}
    THEN ParseOk(Node("cat", "", {}, <<>>), i)
    ELSE AlternativeRest(src, ParseTerm(src, i))

\* the alternatives that follow the alternative a of a disjunction
DisjunctionRest(src, a) ==
    IF ~a.ok THEN ParseFail
    ELSE IF a.next <= Len(src) /\ src[a.next] = "|"
    THEN WithKids("alt", a, ParseDisjunction(src, a.next + 1))
    ELSE ParseOk(Node("alt", "", {}, <<a.node>>), a.next)

\* Disjunction: alternatives separated by '|'
ParseDisjunction(src, i) == DisjunctionRest(src, ParseAlternative(src, i))

\* the whole source must be one disjunction
WholeSource(src, r) == IF r.ok /\ r.next = Len(src) + 1 THEN r ELSE ParseFail

\* new RegExp(source)
ParseRegExp(src) == WholeSource(src, ParseDisjunction(src, 1))

RECURSIVE Ends(_, _, _)
RECURSIVE EndsCat(_, _, _, _)
RECURSIVE EndsClosure(_, _, _)

\* the positions (numbers of characters consumed) at which a match of node
\* that starts at a position of P can end
Ends(node, s, P) ==
    CASE node.t = "lit" ->
            {p + 1 : p \in {q \in P : q < Len(s) /\ s[q + 1] = node.c}}
      [] node.t = "any" ->
            {p + 1 : p \in {q \in P : q < Len(s)}}
      [] node.t = "class" ->
            {p + 1 : p \in {q \in P : q < Len(s) /\ s[q + 1] \in node.cs}}
      [] node.t = "nclass" ->
            {p + 1 : p \in {q \in P : q < Len(s) /\ s[q + 1] \notin node.cs}}
      [] node.t = "bol" -> {p \in P : p = 0}
      [] node.t = "eol" -> {p \in P : p = Len(s)}
      [] node.t = "group" -> Ends(node.kids[1], s, P)
      [] node.t = "star" -> EndsClosure(node.kids[1], s, P)
      [] node.t = "plus" -> EndsClosure(node.kids[1], s, Ends(node.kids[1], s, P))
      [] node.t = "opt" -> P \cup Ends(node.kids[1], s, P)
      [] node.t = "cat" -> EndsCat(node.kids, 1, s, P)
      [] node.t = "alt" ->
            UNION {Ends(node.kids[k], s, P) : k \in 1..Len(node.kids)}
      [] OTHER -> {}

EndsCat(kids, k, s, P) ==
    IF k > Len(kids) \/ P = {} THEN P
    ELSE EndsCat(kids, k + 1, s, Ends(kids[k], s, P))

\* one more round of a repetition, Q the positions after it
ClosureStep(node, s, P, Q) == IF Q = P THEN P ELSE EndsClosure(node, s, Q)

EndsClosure(node, s, P) == ClosureStep(node, s, P, P \cup Ends(node, s, P))

\* regexp.test(s) without the g or y flag: a match starting anywhere in s
Test(src, s) == Ends(ParseRegExp(src).node, s, 0..Len(s)) # {}

(***************************************************************************)
(* The regex compiler and the matcher.                                     *)
(***************************************************************************)
\* the characters of the class /[$()+./?[\\\]^{|}\-]/
RegExpSpecialChars ==
    {"$", "(", ")", "+", ".", "/", "?", "[", "\\", "]", "^", "{", "|", "}", "-"}

RECURSIVE EscapeRegExp(_)
\* pattern.replaceAll(/[$()+./?[\\\]^{|}\-]/g, '\\$&')
EscapeRegExp(pattern) ==
    IF Len(pattern) = 0 THEN <<>>
    ELSE (IF Head(pattern) \in RegExpSpecialChars
          THEN <<"\\", Head(pattern)>>
          ELSE <<Head(pattern)>>) \o EscapeRegExp(Tail(pattern))

\* the token '(.+)'
AnyCharsToken == <<"(", ".", "+", ")">>

\* the token '([^\\/]+)'
NoSlashToken == <<"(", "[", "^", "\\", "/", "]", "+", ")">>

\* a variant that replaces the first '*' before it looks for '**'
prepareRegexPatternStarFirst(pattern) ==
    ReplaceFirst(ReplaceFirst(EscapeRegExp(pattern), <<"*">>, NoSlashToken),
                 <<"*", "*">>, AnyCharsToken)

prepareRegexPattern(pattern) ==
    ReplaceFirst(ReplaceFirst(EscapeRegExp(pattern), <<"*", "*">>, AnyCharsToken),
                 <<"*">>, NoSlashToken)

\* if (pattern.startsWith('/')) pattern = pattern.slice(1)
StripLeadingSlash(pattern) ==
    IF StartsWith(pattern, <<"/">>) THEN Slice1(pattern) ELSE pattern

\* one turn of the loop of toRegex: the text that is pushed, and where
StripPattern(pattern) ==
    [withExclamation |-> StartsWith(pattern, <<"!">>),
     pattern |-> StripLeadingSlash(IF StartsWith(pattern, <<"!">>)
                                   THEN Slice1(pattern) ELSE pattern)]

\* what one turn of the loop pushes on the accepts or the ignores list
Pushed(e, negated) == IF e.withExclamation = negated THEN <<e.pattern>> ELSE <<>>

RECURSIVE Partition(_, _)
\* the accepts (negated = TRUE) or ignores (negated = FALSE) list of toRegex
Partition(pats, negated) ==
    IF Len(pats) = 0 THEN <<>>
    ELSE Pushed(StripPattern(Head(pats)), negated) \o Partition(Tail(pats), negated)

\* the source of the expression of one partition
CombinedSource(list) ==
    IF Len(list) > 0
    THEN <<"^", "(">>
            \o Join([k \in 1..Len(list) |-> prepareRegexPattern(list[k])],
                    <<")", "|", "(">>)
            \o <<")">>
    ELSE <<"$", "^">>

NoRegex == [status |-> "none", accepts |-> <<>>, ignores |-> <<>>]

\* toRegex(patterns): the pair of compiled expressions, or the SyntaxError
\* that new RegExp raises
CompiledPair(accepts, ignores) ==
    IF ParseRegExp(accepts).ok /\ ParseRegExp(ignores).ok
    THEN [status |-> "ok", accepts |-> accepts, ignores |-> ignores]
    ELSE [status |-> "SyntaxError", accepts |-> <<>>, ignores |-> <<>>]

toRegex(pats) ==
    CompiledPair(CombinedSource(Partition(pats, TRUE)),
                 CombinedSource(Partition(pats, FALSE)))

\* value: the candidate with one leading '/' removed
StripCandidate(pattern) ==
    IF StartsWith(pattern, <<"/">>) THEN Slice1(pattern) ELSE pattern

\* ignore as it would be if the accepts expression were not consulted
ignoreWithoutAccepts(re, pattern) ==
    Test(re.ignores, StripCandidate(pattern))

\* ignore({ accepts, ignores }, pattern)
ignore(re, pattern) ==
    /\ Test(re.ignores, StripCandidate(pattern))
    /\ ~Test(re.accepts, StripCandidate(pattern))

(***************************************************************************)
(* The calls.                                                              *)
(***************************************************************************)
PatternLists == ListsOfStrings(PatternChars, MaxPatChars)

Candidates == StringsUpTo(CandidateChars, MaxCandLen)

WildLists == ListsOfStrings(WildChars, MaxWildChars)

NoResult == [done |-> FALSE, ignored |-> FALSE]

Contents == StringsUpTo(ContentChars, MaxContentLen)

ParseOptions == [dedupe : OptionValues]

NotParsed == [done |-> FALSE, value |-> <<>>]

Paths == {<<"a">>, <<"b">>}

NoFile == [exists |-> FALSE, text |-> <<>>]

\* what a path can hold: nothing, or a file with its text
FileStates == {NoFile} \cup {[exists |-> TRUE, text |-> t] : t \in StringsUpTo(FileChars, MaxFileLen)}

ParsePathOptions == [dedupe : OptionValues, strict : OptionValues]

NoOutcome == [kind |-> "none", value |-> <<>>, message |-> <<>>]

IgnorePatterns == StringsUpTo(ConvertChars, MaxConvertLen)

NotConverted == [done |-> FALSE, value |-> <<>>]

Init ==
    /\ patterns = <<>>
    /\ regex = NoRegex
    /\ candidate = <<>>
    /\ result = NoResult
    /\ content = <<>>
    /\ options = [dedupe |-> "undefined"]
    /\ parsed = NotParsed
    /\ files = [path \in Paths |-> NoFile]
    /\ filepath = <<>>
    /\ pathOptions = [dedupe |-> "undefined", strict |-> "undefined"]
    /\ outcome = NoOutcome
    /\ ignorePattern = <<>>
    /\ minimatch = NotConverted

\* regex = toRegex(patterns)
ToRegex ==
    /\ regex.status = "none"
    /\ \E pats \in PatternLists :
        /\ patterns' = pats
        /\ regex' = toRegex(pats)
        /\ candidate' = <<>>
        /\ result' = NoResult
        /\ UNCHANGED <<parseVars, pathVars, convertVars>>

\* the same call on patterns with many wildcards
ToRegexWild ==
    /\ regex.status = "none"
    /\ \E pats \in WildLists :
        /\ patterns' = pats
        /\ regex' = toRegex(pats)
        /\ candidate' = <<>>
        /\ result' = NoResult
        /\ UNCHANGED <<parseVars, pathVars, convertVars>>

\* result = ignore(regex, candidate), on a compiled pair
Ignore ==
    /\ regex.status = "ok"
    /\ ~result.done
    /\ \E c \in Candidates :
        /\ candidate' = c
        /\ result' = [done |-> TRUE, ignored |-> ignore(regex, c)]
    /\ UNCHANGED <<patterns, regex, parseVars, pathVars, convertVars>>

NextMatch == ToRegex \/ Ignore

SpecMatch == Init /\ [][NextMatch]_vars

NextCompile == ToRegexWild

SpecCompile == Init /\ [][NextCompile]_vars

\* parsed = parse(content, options)
Parse ==
    /\ ~parsed.done
    /\ \E text \in Contents, opts \in ParseOptions :
        /\ content' = text
        /\ options' = opts
        /\ parsed' = [done |-> TRUE, value |-> parse(text, opts)]
    /\ UNCHANGED <<matchVars, pathVars, convertVars>>

NextParse == Parse

SpecParse == Init /\ [][NextParse]_vars

\* the state before parsePath is called: any file system
InitParsePath ==
    /\ patterns = <<>>
    /\ regex = NoRegex
    /\ candidate = <<>>
    /\ result = NoResult
    /\ content = <<>>
    /\ options = [dedupe |-> "undefined"]
    /\ parsed = NotParsed
    /\ files \in [Paths -> FileStates]
    /\ filepath = <<>>
    /\ pathOptions = [dedupe |-> "undefined", strict |-> "undefined"]
    /\ outcome = NoOutcome
    /\ ignorePattern = <<>>
    /\ minimatch = NotConverted

\* outcome = parsePath(filepath, pathOptions)
ParsePath ==
    /\ outcome.kind = "none"
    /\ \E path \in Paths, opts \in ParsePathOptions :
        /\ filepath' = path
        /\ pathOptions' = opts
        /\ outcome' = parsePath(files, path, opts)
    /\ UNCHANGED <<matchVars, parseVars, files, convertVars>>

NextParsePath == ParsePath

SpecParsePath == InitParsePath /\ [][NextParsePath]_vars

\* minimatch = convertIgnorePatternToMinimatch(ignorePattern)
Convert ==
    /\ ~minimatch.done
    /\ \E pattern \in IgnorePatterns :
        /\ ignorePattern' = pattern
        /\ minimatch' = [done |-> TRUE, value |-> convertIgnorePatternToMinimatch(pattern)]
    /\ UNCHANGED <<matchVars, parseVars, pathVars>>

NextConvert == Convert

SpecConvert == Init /\ [][NextConvert]_vars

(***************************************************************************)
(* Claims about the regex compiler and the matcher.                        *)
(***************************************************************************)
\* the candidate as the expressions see it: one leading '/' removed
Stripped(c) == IF Len(c) > 0 /\ c[1] = "/" THEN SubSeq(c, 2, Len(c)) ELSE c

\* the translation of one pattern matches s starting at position 0
MatchesAtStart(pattern, s) ==
    Ends(ParseRegExp(prepareRegexPattern(pattern)).node, s, {0}) # {}

\* the expression compiled for a partition
Compiled(negated) == IF negated THEN regex.accepts ELSE regex.ignores

\* C1: when a partition holds two or more patterns, its combined expression
\* matches a candidate only if one of the partition's translated patterns
\* matches the candidate starting at position 0.
C1_AlternationAnchored ==
    result.done =>
        \A negated \in BOOLEAN :
            LET part == Partition(patterns, negated)
            IN  (Len(part) >= 2 /\ Test(Compiled(negated), Stripped(candidate)))
                    => \E k \in 1..Len(part) :
                          MatchesAtStart(part[k], Stripped(candidate))

\* C2: an empty partition compiles to an expression that matches no
\* candidate, the empty one included, and a list with no non-negated pattern
\* ignores no candidate.
C2_EmptyPartitionMatchesNothing ==
    result.done =>
        /\ \A negated \in BOOLEAN :
              Partition(patterns, negated) = <<>>
                  => ~Test(Compiled(negated), Stripped(candidate))
        /\ Partition(patterns, FALSE) = <<>> => ~result.ignored

\* C3: toRegex returns a compiled pair for every list of patterns; it never
\* raises.
C3_ToRegexTotal == regex.status # "SyntaxError"

\* the lists that hold the elements of pats in another order
Reorderings(pats) ==
    LET n == Len(pats)
    IN  {[k \in 1..n |-> pats[f[k]]] :
            f \in {g \in [1..n -> 1..n] : \A i, j \in 1..n : g[i] = g[j] => i = j}}

\* C4: the decision of ignore is the same for every order of the patterns.
C4_OrderIrrelevant ==
    result.done =>
        \A perm \in Reorderings(patterns) :
            /\ toRegex(perm).status = "ok"
            /\ ignore(toRegex(perm), candidate) = result.ignored

\* C5: ignore is true iff the ignores expression matches the candidate
\* without its one leading '/' and the accepts expression does not; a
\* leading '/' on the candidate changes nothing; and a candidate that a
\* negated pattern matches is never ignored.
C5_IgnoreDecision ==
    result.done =>
        /\ result.ignored = (Test(regex.ignores, Stripped(candidate))
                                /\ ~Test(regex.accepts, Stripped(candidate)))
        /\ ~StartsWith(candidate, <<"/">>)
              => ignore(regex, <<"/">> \o candidate) = result.ignored
        /\ (\E k \in 1..Len(Partition(patterns, TRUE)) :
               MatchesAtStart(Partition(patterns, TRUE)[k], Stripped(candidate)))
              => ~result.ignored

\* C5 witness: with the patterns '*' and '!a', the candidate 'a' is not
\* ignored although the exclusion pattern '*' matches it.
C5_Witness ==
    /\ patterns = << <<"*">>, <<"!", "a">> >>
    /\ candidate = <<"a">>
    /\ result.done
    /\ ~result.ignored
    /\ Test(regex.ignores, candidate)

WildcardFree(pattern) == \A i \in 1..Len(pattern) : pattern[i] # "*"

\* C6: with no negated pattern in the list, a wildcard-free pattern p of the
\* list makes ignore true for the candidate p and for every candidate
\* p + '/' + rest.
C6_DirectoryIgnoresDescendants ==
    (result.done /\ Partition(patterns, TRUE) = <<>>) =>
        \A k \in 1..Len(patterns) :
            (/\ WildcardFree(patterns[k])
             /\ \/ candidate = patterns[k]
                \/ StartsWith(candidate, patterns[k] \o <<"/">>))
                => result.ignored

(***************************************************************************)
(* Claims about the tokenizer.                                             *)
(***************************************************************************)
\* the k-th least element of a set of numbers
Kth(S, k) == CHOOSE i \in S : Cardinality({j \in S : j <= i}) = k

\* the elements of list at the indices of S, in the order of list
AtIndices(list, S) == [k \in 1..Cardinality(S) |-> list[Kth(S, k)]]

\* the trimmed lines of the content that are neither empty nor comments
ExpectedPatterns(text) ==
    AtIndices([k \in 1..Len(SplitLines(text)) |-> Trim(SplitLines(text)[k])],
              {k \in 1..Len(SplitLines(text)) :
                  /\ Trim(SplitLines(text)[k]) # <<>>
                  /\ Trim(SplitLines(text)[k])[1] # "#"})

\* list with only the first occurrence of each value
FirstOccurrences(list) ==
    AtIndices(list, {i \in 1..Len(list) : \A j \in 1..(i - 1) : list[j] # list[i]})

\* C7: parse returns no empty element, no element that starts with '#' and
\* only trimmed elements, in the order of the source; dedupe of the parse
\* without dedupe equals the parse with dedupe, which is the default, and
\* dedupe keeps the first occurrence of each value in the order of the list.
C7_ParseAndDedupe ==
    parsed.done =>
        /\ \A k \in 1..Len(parsed.value) :
              /\ parsed.value[k] # <<>>
              /\ parsed.value[k][1] # "#"
              /\ parsed.value[k][1] \notin WhiteSpace
              /\ parsed.value[k][Len(parsed.value[k])] \notin WhiteSpace
        /\ parsed.value = IF options.dedupe = "false"
                          THEN ExpectedPatterns(content)
                          ELSE FirstOccurrences(ExpectedPatterns(content))
        /\ dedupe(parse(content, [dedupe |-> "false"]))
              = parse(content, [dedupe |-> "true"])
        /\ parse(content, [dedupe |-> "true"])
              = parse(content, [dedupe |-> "undefined"])
        /\ dedupe(parse(content, [dedupe |-> "false"]))
              = FirstOccurrences(parse(content, [dedupe |-> "false"]))

\* C7 witness: 'a', 'b', 'a' on three lines, parsed with the default options,
\* gives 'a', 'b'.
C7_Witness ==
    /\ parsed.done
    /\ content = <<"a", "\n", "b", "\n", "a">>
    /\ options.dedupe = "undefined"
    /\ parsed.value = << <<"a">>, <<"b">> >>

(***************************************************************************)
(* Claims about parsePath.                                                 *)
(***************************************************************************)
\* sub occurs in s
Contains(s, sub) ==
    \E i \in 1..(Len(s) - Len(sub) + 1) : SubSeq(s, i, i + Len(sub) - 1) = sub

InvalidFile == <<"i", "n", "v", "a", "l", "i", "d", " ", "f", "i", "l", "e">>

\* C8: on a path that does not exist parsePath raises an error whose message
\* holds the file path and 'invalid file' when strict is true or omitted, and
\* returns the empty list when strict is false; on an existing path it
\* returns the parse of the text of the file with the same options.
C8_ParsePath ==
    outcome.kind # "none" =>
        /\ (~files[filepath].exists /\ pathOptions.strict # "false")
              => /\ outcome.kind = "throw"
                 /\ Contains(outcome.message, filepath)
                 /\ Contains(outcome.message, InvalidFile)
        /\ (~files[filepath].exists /\ pathOptions.strict = "false")
              => /\ outcome.kind = "return"
                 /\ outcome.value = <<>>
        /\ files[filepath].exists
              => /\ outcome.kind = "return"
                 /\ outcome.value = parse(files[filepath].text,
                                          [dedupe |-> pathOptions.dedupe])

\* C8 witness: a missing path, strict omitted, and the error raised.
C8_Witness ==
    /\ outcome.kind = "throw"
    /\ ~files[filepath].exists
    /\ pathOptions.strict = "undefined"

(***************************************************************************)
(* Claims about the glob translator.                                       *)
(***************************************************************************)
\* the pattern without one leading '!' and without trailing white space
TextToTest(pattern) ==
    TrimEnd(IF Len(pattern) > 0 /\ pattern[1] = "!"
            THEN SubSeq(pattern, 2, Len(pattern)) ELSE pattern)

SlashIndices(text) == {i \in 1..Len(text) : text[i] = "/"}

\* the text holds no '/', or its only '/' is its last character
MatchesEverywhere(text) == SlashIndices(text) \subseteq {Len(text)}

\* the text without its leading '/'
Body(text) ==
    IF Len(text) > 0 /\ text[1] = "/" THEN SubSeq(text, 2, Len(text)) ELSE text

\* C9: outside the pass-through cases the result has the '**/' prefix iff the
\* text (the pattern without one leading '!', right-trimmed) holds no '/' or
\* has its only '/' as its last character; the text loses a leading '/'; and
\* the result starts with '!' iff the pattern does, the '!' placed before
\* the prefix.
C9_PrefixAndNegation ==
    (minimatch.done /\ TextToTest(ignorePattern) \notin PassThrough) =>
        /\ minimatch.value
              = (IF StartsWith(ignorePattern, <<"!">>) THEN <<"!">> ELSE <<>>)
                   \o (IF MatchesEverywhere(TextToTest(ignorePattern))
                       THEN <<"*", "*", "/">> ELSE <<>>)
                   \o EscapeBraces(Body(TextToTest(ignorePattern)))
                   \o MatchInsideSuffix(TextToTest(ignorePattern))
        /\ StartsWith(minimatch.value, <<"!">>) <=> StartsWith(ignorePattern, <<"!">>)

RECURSIVE BackslashesBefore(_, _)
\* the length of the run of backslashes that ends just before position i
BackslashesBefore(s, i) ==
    IF i > 1 /\ s[i - 1] = "\\" THEN 1 + BackslashesBefore(s, i - 1) ELSE 0

\* the brace at position i is not escaped
Unescaped(s, i) == s[i] \in {"{", "("} /\ BackslashesBefore(s, i) % 2 = 0

RECURSIVE ExpectedEscapeUpTo(_, _)
\* the first n characters of s, one backslash put before each unescaped brace
ExpectedEscapeUpTo(s, n) ==
    IF n = 0 THEN <<>>
    ELSE ExpectedEscapeUpTo(s, n - 1)
            \o (IF Unescaped(s, n) THEN <<"\\", s[n]>> ELSE <<s[n]>>)

\* C10: every '{' and '(' that is not preceded by an odd run of backslashes
\* gets exactly one backslash before it and everything else is unchanged, so
\* the result holds no unescaped '{' or '(' and escaping it again changes
\* nothing.
C10_BraceEscaping ==
    (minimatch.done /\ TextToTest(ignorePattern) \notin PassThrough) =>
        /\ minimatch.value
              = NegatedPrefix(ignorePattern)
                   \o MatchEverywherePrefix(TextToTest(ignorePattern))
                   \o ExpectedEscapeUpTo(Body(TextToTest(ignorePattern)),
                                         Len(Body(TextToTest(ignorePattern))))
                   \o MatchInsideSuffix(TextToTest(ignorePattern))
        /\ \A i \in 1..Len(minimatch.value) : ~Unescaped(minimatch.value, i)
        /\ EscapeBraces(EscapeBraces(Body(TextToTest(ignorePattern))))
              = EscapeBraces(Body(TextToTest(ignorePattern)))

\* C10 witness: in '\{{' the escaped brace is kept and the other one escaped.
C10_Witness ==
    /\ minimatch.done
    /\ ignorePattern = <<"\\", "{", "{">>
    /\ minimatch.value = <<"*", "*", "/", "\\", "{", "\\", "{">>

\* the four texts the claim names: '', '**', '/**' and '**/'
SpecialTexts == {<<>>, <<"*", "*">>, <<"/", "*", "*">>, <<"*", "*", "/">>}

\* the result is the pattern as given, right-trimmed: the '!' put back,
\* nothing before the text, nothing after it, nothing inside it
ReturnedUnchanged ==
    minimatch.value
       = (IF StartsWith(ignorePattern, <<"!">>) THEN <<"!">> ELSE <<>>)
            \o TextToTest(ignorePattern)

\* what the translation gives outside the four texts, the '/*' put at the
\* end iff the text ends with '/**'
TranslatedWithSuffix ==
    minimatch.value
       = NegatedPrefix(ignorePattern)
            \o MatchEverywherePrefix(TextToTest(ignorePattern))
            \o EscapeBraces(Body(TextToTest(ignorePattern)))
            \o (IF EndsWith(TextToTest(ignorePattern), <<"/", "*", "*">>)
                THEN <<"/", "*">> ELSE <<>>)

\* C11 (as stated): the result is the trimmed pattern unchanged exactly when
\* the text after the optional '!' and the right-trim is '', '**', '/**' or
\* '**/'; every other pattern gets '/*' at its end iff that text ends with
\* '/**'.
C11_UnchangedExactlyForSpecialTexts ==
    minimatch.done =>
        /\ ReturnedUnchanged <=> TextToTest(ignorePattern) \in SpecialTexts
        /\ TextToTest(ignorePattern) \notin SpecialTexts => TranslatedWithSuffix

\* the translation has nothing to add to the text: a '/' before its last
\* character, no leading '/', no unescaped brace, no '/**' at its end
NothingToAdd(text) ==
    /\ ~MatchesEverywhere(text)
    /\ ~StartsWith(text, <<"/">>)
    /\ \A i \in 1..Len(text) : ~Unescaped(text, i)
    /\ ~EndsWith(text, <<"/", "*", "*">>)

\* C11 (amended): the result is the trimmed pattern unchanged when the text
\* is '', '**', '/**' or '**/', and also when the text has a '/' before its
\* last character, no leading '/', no unescaped brace and no '/**' at its
\* end, and in no other case; every pattern outside the four texts gets '/*'
\* at its end iff the text ends with '/**'.
C11_UnchangedAndSuffix ==
    minimatch.done =>
        /\ ReturnedUnchanged
              <=> \/ TextToTest(ignorePattern) \in SpecialTexts
                  \/ NothingToAdd(TextToTest(ignorePattern))
        /\ TextToTest(ignorePattern) \notin SpecialTexts => TranslatedWithSuffix

\* C11 witness: 'a/**' is none of the four texts, ends with '/**' and comes
\* back as 'a/**/*'.
C11_Witness ==
    /\ minimatch.done
    /\ ignorePattern = <<"a", "/", "*", "*">>
    /\ minimatch.value = <<"a", "/", "*", "*", "/", "*">>

(***************************************************************************)
(* Claims about the translation of one pattern by the regex compiler.      *)
(***************************************************************************)
\* the pattern without one leading '!' and then without one leading '/'
Operand(p) ==
    Stripped(IF Len(p) > 0 /\ p[1] = "!" THEN SubSeq(p, 2, Len(p)) ELSE p)

\* the patterns of one partition, in order: those that start with '!'
\* (negated) or the others
Operands(negated) ==
    LET ks == {k \in 1..Len(patterns) :
                  (Len(patterns[k]) > 0 /\ patterns[k][1] = "!") <=> negated}
    IN  [n \in 1..Cardinality(ks) |-> Operand(patterns[Kth(ks, n)])]

\* the positions where a '**' starts
DoubleStars(t) == {k \in 1..(Len(t) - 1) : t[k] = "*" /\ t[k + 1] = "*"}

\* the position of the first '**', 0 when there is none
FirstDoubleStar(t) ==
    IF DoubleStars(t) = {} THEN 0
    ELSE CHOOSE k \in DoubleStars(t) : \A m \in DoubleStars(t) : k <= m

\* the positions of the '*' that are not part of the first '**'
OtherStars(t) ==
    {k \in 1..Len(t) : /\ t[k] = "*"
                       /\ (FirstDoubleStar(t) = 0
                             \/ k \notin {FirstDoubleStar(t), FirstDoubleStar(t) + 1})}

\* the position of the first '*' outside the first '**', 0 when there is none
FirstOtherStar(t) ==
    IF OtherStars(t) = {} THEN 0
    ELSE CHOOSE k \in OtherStars(t) : \A m \in OtherStars(t) : k <= m

\* what position k of the text becomes: the first '**' the any-characters
\* token, the first '*' outside it the no-slash token, a metacharacter
\* itself behind a backslash, anything else itself, a later '*' included
TranslatedAt(t, k) ==
    IF k = FirstDoubleStar(t) THEN <<"(", ".", "+", ")">>
    ELSE IF FirstDoubleStar(t) > 0 /\ k = FirstDoubleStar(t) + 1 THEN <<>>
    ELSE IF k = FirstOtherStar(t) THEN <<"(", "[", "^", "\\", "/", "]", "+", ")">>
    ELSE IF t[k] \in {"$", "(", ")", "+", ".", "/", "?", "[", "\\", "]",
                      "^", "{", "|", "}", "-"}
    THEN <<"\\", t[k]>>
    ELSE <<t[k]>>

RECURSIVE TranslatedUpTo(_, _)
\* the translation of the first n characters of the text
TranslatedUpTo(t, n) ==
    IF n = 0 THEN <<>> ELSE TranslatedUpTo(t, n - 1) \o TranslatedAt(t, n)

Translated(t) == TranslatedUpTo(t, Len(t))

\* the source expected for one partition
ExpectedSource(negated) ==
    IF Len(Operands(negated)) = 0 THEN <<"$", "^">>
    ELSE <<"^", "(">>
            \o Join([n \in 1..Len(Operands(negated))
                        |-> Translated(Operands(negated)[n])],
                    <<")", "|", "(">>)
            \o <<")">>

\* the number of '*' in a text
Stars(t) == Cardinality({k \in 1..Len(t) : t[k] = "*"})

====
